---- MODULE Spec2Model ----
(***************************************************************************)
(* A model of include/intrusive_ptr.h: RefCountObject (the embedded        *)
(* counter), intrusive_ptr_add_ref / intrusive_ptr_release, the            *)
(* intrusive_ptr operations and make_intrusive.                            *)
(*                                                                         *)
(* Objects are heap allocations identified by 1..MaxObjs, pointer          *)
(* instances are identified by 1..MaxPtrs.  Every operation of the header  *)
(* is one action.  The library is single threaded, so an operation runs    *)
(* to completion; the counter writes it performs on the way are kept in    *)
(* `log`, and its name in `last`.                                          *)
(*                                                                         *)
(* Accesses the language leaves undefined (a read or write through a       *)
(* pointer to a destroyed object, a dereference of nullptr, a second       *)
(* delete) are nondeterministic: the value read from released memory is    *)
(* any value of Garbage, and the program either goes on or is aborted      *)
(* (crashed).                                                              *)
(***************************************************************************)
EXTENDS Integers, Sequences, FiniteSets, TLC

\* ---------------------------------------------------------------- bounds
MaxPtrs == 3      \* pointer instances that can exist at the same time
MaxObjs == 2      \* objects that can be allocated in one run
MaxCount == 2     \* add_ref is not taken on a counter that is already MaxCount
MaxValue == 0     \* Object::Value ranges over 0..MaxValue
MaxHeld == 1      \* counted raw references the caller holds at the same time

\* ------------------------------------------------------------- constants
NULL == 0         \* nullptr
Half == 65536     \* a uint32_t is kept as <<high 16 bits, low 16 bits>>

Ptrs == 1..MaxPtrs
Objs == 1..MaxObjs
Values == 0..MaxValue

\* ------------------------------------------------- uint32_t m_ref_count
U32(n) == <<n \div Half, n % Half>>

Zero == U32(0)

UINT32_MAX == <<Half - 1, Half - 1>>

\* ++x on a uint32_t
Inc32(c) ==
    IF c[2] = Half - 1
    THEN IF c[1] = Half - 1 THEN <<0, 0>> ELSE <<c[1] + 1, 0>>
    ELSE <<c[1], c[2] + 1>>

\* --x on a uint32_t
Dec32(c) ==
    IF c[2] = 0
    THEN IF c[1] = 0 THEN <<Half - 1, Half - 1>> ELSE <<c[1] - 1, Half - 1>>
    ELSE <<c[1], c[2] - 1>>

\* The counters the model follows: 0..MaxCount, and the value a decrement
\* of 0 wraps to.
InBound(c) ==
    \/ c[1] = 0 /\ c[2] <= MaxCount
    \/ c = UINT32_MAX

\* What a read of a counter in released memory can return.
Garbage == {U32(n) : n \in 0..MaxCount}

VARIABLES
    alive,        \* the pointer instances that are constructed and not destroyed
    m_pointer,    \* intrusive_ptr::m_pointer of every instance
    heap,         \* per object: "unalloc", "live" (new'ed) or "freed" (deleted)
    m_ref_count,  \* RefCountObject::m_ref_count of every live object
    Value,        \* Object::Value of every live object
    deletes,      \* how many times delete ran on the object
    held,         \* counted raw references handed to the caller by detach()
    crashed,      \* the program was aborted by undefined behaviour
    last,         \* the operation that ran last
    log           \* the counter writes of the last operation, in order

prog == <<alive, m_pointer, heap, m_ref_count, Value, deletes, held>>

vars == <<alive, m_pointer, heap, m_ref_count, Value, deletes, held, crashed, last, log>>

\* The object memory an operation works on.
Mem == [cnt |-> m_ref_count, heap |-> heap, val |-> Value, del |-> deletes,
        log |-> <<>>, ub |-> FALSE]


Init ==
    /\ alive = {}
    /\ m_pointer = [p \in Ptrs |-> NULL]
    /\ heap = [o \in Objs |-> "unalloc"]
    /\ m_ref_count = [o \in Objs |-> Zero]
    /\ Value = [o \in Objs |-> 0]
    /\ deletes = [o \in Objs |-> 0]
    /\ held = [o \in Objs |-> 0]
    /\ crashed = FALSE
    /\ last = "init"
    /\ log = <<>>

\* ------------------------------------------------ the two free functions

\* intrusive_ptr_add_ref: ++(ptr->m_ref_count).  On a destroyed object the
\* increment works on released memory (g is what it reads there).
intrusive_ptr_add_ref(m, o, g) ==
    IF m.heap[o] = "live"
    THEN [m EXCEPT !.cnt[o] = Inc32(@),
                   !.log = Append(@, [obj |-> o, kind |-> "add_ref", uaf |-> FALSE,
                                      old |-> m.cnt[o], new |-> Inc32(m.cnt[o])])]
    ELSE [m EXCEPT !.ub = TRUE,
                   !.log = Append(@, [obj |-> o, kind |-> "add_ref", uaf |-> TRUE,
                                      old |-> Zero, new |-> Zero])]

\* intrusive_ptr_release that decrements and never deletes
intrusive_ptr_release_NoDelete(m, o, g) ==
    IF m.heap[o] = "live"
    THEN [m EXCEPT !.cnt[o] = Dec32(@),
                   !.log = Append(@, [obj |-> o, kind |-> "release", uaf |-> FALSE,
                                      old |-> m.cnt[o], new |-> Dec32(m.cnt[o])])]
    ELSE [m EXCEPT !.ub = TRUE,
                   !.log = Append(@, [obj |-> o, kind |-> "release", uaf |-> TRUE,
                                      old |-> Zero, new |-> Zero])]

\* intrusive_ptr_release: if (--(ptr->m_ref_count) == 0) delete ptr.
intrusive_ptr_release(m, o, g) ==
    LET c == IF m.heap[o] = "live" THEN m.cnt[o] ELSE g
        n == Dec32(c)
        e == IF m.heap[o] = "live"
             THEN [obj |-> o, kind |-> "release", uaf |-> FALSE, old |-> c, new |-> n]
             ELSE [obj |-> o, kind |-> "release", uaf |-> TRUE, old |-> Zero, new |-> Zero]
    IN  IF m.heap[o] = "live"
        THEN IF n = Zero
             THEN [m EXCEPT !.cnt[o] = Zero, !.val[o] = 0, !.heap[o] = "freed",
                            !.del[o] = @ + 1, !.log = Append(@, e)]
             ELSE [m EXCEPT !.cnt[o] = n, !.log = Append(@, e)]
        ELSE IF n = Zero
             THEN [m EXCEPT !.ub = TRUE, !.log = Append(@, e),
                            !.del[o] = IF @ < 2 THEN @ + 1 ELSE @]
             ELSE [m EXCEPT !.ub = TRUE, !.log = Append(@, e)]

\* RefCountObject::ReferenceCount
ReferenceCount(o) == m_ref_count[o]

\* ------------------------------------------------ read-only operations

get(p) == m_pointer[p]

\* use_count that reports one reference for an empty pointer
use_count_OneWhenEmpty(p) ==
    IF m_pointer[p] # NULL THEN ReferenceCount(m_pointer[p]) ELSE U32(1)

\* use_count() of a pointer that is empty or refers to a live object
use_count(p) ==
    IF m_pointer[p] # NULL THEN ReferenceCount(m_pointer[p]) ELSE Zero

\* explicit operator bool
ToBool(p) == m_pointer[p] # NULL

\* operator== that compares the pointees' data
Equals_ByValue(p, q) ==
    IF m_pointer[p] # NULL /\ get(q) # NULL
    THEN Value[m_pointer[p]] = Value[get(q)]
    ELSE m_pointer[p] = get(q)

\* operator==
Equals(p, q) == m_pointer[p] = get(q)

\* operator!=
NotEquals(p, q) == ~Equals(p, q)

\* ------------------------------------------------------------- helpers

\* set without its intrusive_ptr_add_ref
set_NoAddRef(m, ptr, add_ref, g) == m

\* set that ignores its add_ref flag and always acquires
set_AlwaysAddRef(m, ptr, add_ref, g) ==
    IF ptr # NULL THEN intrusive_ptr_add_ref(m, ptr, g) ELSE m

\* set(ptr, add_ref): the counter part; the slot is written by the action.
set(m, ptr, add_ref, g) ==
    IF ptr # NULL /\ add_ref THEN intrusive_ptr_add_ref(m, ptr, g) ELSE m

\* The raw references a caller can pass: what get() returns on some
\* pointer, what detach() handed out, or nullptr.
RawRefs == {m_pointer[q] : q \in alive} \cup {o \in Objs : held[o] > 0} \cup {NULL}

RECURSIVE Sum(_, _)
Sum(f, S) == IF S = {} THEN 0 ELSE LET x == CHOOSE x \in S : TRUE IN f[x] + Sum(f, S \ {x})

HeldTotal == Sum(held, Objs)

Dangling(o) == o # NULL /\ heap[o] = "freed"

GarbageIf(cond) == IF cond THEN Garbage ELSE {Zero}

AbortIf(cond) == IF cond THEN BOOLEAN ELSE {FALSE}

\* The end of every operation: the program is either aborted, or is left
\* with the pointers P, the instances A, the memory m and the raw
\* references H.
Finish(op, abort, A, P, m, H) ==
    /\ \A o \in Objs : InBound(m.cnt[o])
    /\ crashed' = abort
    /\ IF abort
       THEN UNCHANGED prog
       ELSE /\ alive' = A
            /\ m_pointer' = P
            /\ heap' = m.heap
            /\ m_ref_count' = m.cnt
            /\ Value' = m.val
            /\ deletes' = m.del
            /\ held' = H
    /\ last' = op
    /\ log' = m.log

\* ------------------------------------------------------------ operations

\* A new pointer instance takes the first identity that is not in use.
NewInstance(p) == p \notin alive /\ \A q \in Ptrs \ alive : p <= q

\* make_intrusive<T>(args...): new T(args...), then intrusive_ptr<T>(raw_ptr).
\* The allocation is the first object not allocated yet.
make_intrusive(p, v) ==
    /\ ~crashed
    /\ NewInstance(p)
    /\ \E o \in Objs :
        /\ heap[o] = "unalloc"
        /\ \A n \in Objs : heap[n] = "unalloc" => o <= n
        /\ LET fresh == [Mem EXCEPT !.heap[o] = "live", !.val[o] = v, !.cnt[o] = Zero]
               m == set(fresh, o, TRUE, Zero)
           IN  Finish("make_intrusive", FALSE,
                      alive \cup {p}, [m_pointer EXCEPT ![p] = o], m, held)

\* intrusive_ptr(): m_pointer(nullptr)
ConstructEmpty(p) ==
    /\ ~crashed
    /\ NewInstance(p)
    /\ Finish("construct_empty", FALSE,
              alive \cup {p}, [m_pointer EXCEPT ![p] = NULL], Mem, held)

\* intrusive_ptr(T* ptr, bool add_ref): set(ptr, add_ref).  With
\* add_ref = false the caller gives up a counted reference it holds.
ConstructRaw(p, ptr, add_ref) ==
    /\ ~crashed
    /\ NewInstance(p)
    /\ ptr \in RawRefs
    /\ ~add_ref /\ ptr # NULL => held[ptr] > 0
    /\ \E g \in GarbageIf(Dangling(ptr) /\ add_ref) :
        LET m == set(Mem, ptr, add_ref, g)
            H == IF ~add_ref /\ ptr # NULL THEN [held EXCEPT ![ptr] = @ - 1] ELSE held
        IN  \E abort \in AbortIf(m.ub) :
                Finish("construct_raw", abort,
                       alive \cup {p}, [m_pointer EXCEPT ![p] = ptr], m, H)

\* intrusive_ptr(const intrusive_ptr& other): set(other.get(), true)
CopyConstruct(p, other) ==
    /\ ~crashed
    /\ NewInstance(p)
    /\ other \in alive
    /\ \E g \in GarbageIf(Dangling(get(other))) :
        LET m == set(Mem, get(other), TRUE, g)
        IN  \E abort \in AbortIf(m.ub) :
                Finish("copy_construct", abort,
                       alive \cup {p}, [m_pointer EXCEPT ![p] = get(other)], m, held)

\* detach that leaves the slot as it is
detach_KeepsSlot(P, p) == P

\* The slots after p.detach(): if (ptr) m_pointer = nullptr.
detach(P, p) == IF P[p] # NULL THEN [P EXCEPT ![p] = NULL] ELSE P

\* intrusive_ptr(intrusive_ptr&& other): m_pointer(other.detach())
MoveConstruct(p, other) ==
    /\ ~crashed
    /\ NewInstance(p)
    /\ other \in alive
    /\ Finish("move_construct", FALSE,
              alive \cup {p}, [detach(m_pointer, other) EXCEPT ![p] = m_pointer[other]],
              Mem, held)

\* ~intrusive_ptr(): if (m_pointer != nullptr) intrusive_ptr_release(m_pointer)
Destroy(p) ==
    /\ ~crashed
    /\ p \in alive
    /\ \E g \in GarbageIf(Dangling(m_pointer[p])) :
        LET m == IF m_pointer[p] # NULL
                 THEN intrusive_ptr_release(Mem, m_pointer[p], g) ELSE Mem
        IN  \E abort \in AbortIf(m.ub) :
                Finish("destroy", abort,
                       alive \ {p}, [m_pointer EXCEPT ![p] = NULL], m, held)

\* copy assignment that clears its slot first and has no self check
CopyAssign_ClearsFirst(p, other) ==
    /\ ~crashed
    /\ p \in alive
    /\ other \in alive
    /\ Finish("copy_assign", FALSE, alive,
              [m_pointer EXCEPT ![p] = detach(m_pointer, p)[other]],
              Mem, held)

\* operator=(const intrusive_ptr& other):
\*   if (this == &other) return *this;  m_pointer = other.get();
CopyAssign(p, other) ==
    /\ ~crashed
    /\ p \in alive
    /\ other \in alive
    /\ Finish("copy_assign", FALSE, alive,
              IF p = other THEN m_pointer ELSE [m_pointer EXCEPT ![p] = get(other)],
              Mem, held)

\* operator=(intrusive_ptr&& other):
\*   if (this == &other) return *this;  m_pointer = std::move(other);
\* The right-hand side is the intrusive_ptr itself, for which the class has
\* no conversion to T*, so the statement is ill-formed once the operator is
\* instantiated.  It is read here as what it spells: std::move is a cast
\* and changes nothing in other, the slot receives the raw reference of
\* other.  Nothing is released and no counter is touched.
MoveAssign(p, other) ==
    /\ ~crashed
    /\ p \in alive
    /\ other \in alive
    /\ Finish("move_assign", FALSE, alive,
              IF p = other THEN m_pointer ELSE [m_pointer EXCEPT ![p] = m_pointer[other]],
              Mem, held)

\* T* detach(): the caller now holds the reference the pointer counted.
Detach(p) ==
    /\ ~crashed
    /\ p \in alive
    /\ m_pointer[p] # NULL => HeldTotal < MaxHeld
    /\ Finish("detach", FALSE, alive,
              detach(m_pointer, p), Mem,
              IF m_pointer[p] # NULL THEN [held EXCEPT ![m_pointer[p]] = @ + 1] ELSE held)

\* reset that releases the old reference before it acquires the new one
reset_ReleaseFirst(p, ptr, add_ref) ==
    /\ ~crashed
    /\ p \in alive
    /\ ptr \in RawRefs
    /\ ~add_ref /\ ptr # NULL => held[ptr] > 0
    /\ \E g1 \in GarbageIf(Dangling(ptr) /\ add_ref), g2 \in GarbageIf(Dangling(m_pointer[p])) :
        LET old_ptr == m_pointer[p]
            m1 == IF old_ptr # NULL THEN intrusive_ptr_release(Mem, old_ptr, g2) ELSE Mem
            m == set(m1, ptr, add_ref, g1)
            H == IF ~add_ref /\ ptr # NULL THEN [held EXCEPT ![ptr] = @ - 1] ELSE held
        IN  \E abort \in AbortIf(m.ub) :
                Finish("reset", abort, alive,
                       [m_pointer EXCEPT ![p] = ptr], m, H)

\* reset(T* ptr, bool add_ref):
\*   old_ptr = m_pointer; set(ptr, add_ref); if (old_ptr) release(old_ptr);
reset(p, ptr, add_ref) ==
    /\ ~crashed
    /\ p \in alive
    /\ ptr \in RawRefs
    /\ ~add_ref /\ ptr # NULL => held[ptr] > 0
    /\ \E g1 \in GarbageIf(Dangling(ptr) /\ add_ref), g2 \in GarbageIf(Dangling(m_pointer[p])) :
        LET old_ptr == m_pointer[p]
            m1 == set(Mem, ptr, add_ref, g1)
            m == IF old_ptr # NULL THEN intrusive_ptr_release(m1, old_ptr, g2) ELSE m1
            H == IF ~add_ref /\ ptr # NULL THEN [held EXCEPT ![ptr] = @ - 1] ELSE held
        IN  \E abort \in AbortIf(m.ub) :
                Finish("reset", abort, alive,
                       [m_pointer EXCEPT ![p] = ptr], m, H)

\* std::swap(a, b) on two objects: T tmp(a); a = b; b = tmp.  Object has no
\* move operations (its destructor is user-declared), so the copies are
\* memberwise and take the RefCountObject base, m_ref_count included.
\* gc, gv: what is read when the other object is destroyed.
swap_objects(m, a, b, gc, gv) ==
    LET la == m.heap[a] = "live"
        lb == m.heap[b] = "live"
        ca == IF la THEN m.cnt[a] ELSE gc
        cb == IF lb THEN m.cnt[b] ELSE gc
        va == IF la THEN m.val[a] ELSE gv
        vb == IF lb THEN m.val[b] ELSE gv
        ea == IF la THEN [obj |-> a, kind |-> "assign", uaf |-> FALSE, old |-> ca, new |-> cb]
              ELSE [obj |-> a, kind |-> "assign", uaf |-> TRUE, old |-> Zero, new |-> Zero]
        eb == IF lb THEN [obj |-> b, kind |-> "assign", uaf |-> FALSE, old |-> cb, new |-> ca]
              ELSE [obj |-> b, kind |-> "assign", uaf |-> TRUE, old |-> Zero, new |-> Zero]
        m1 == IF la THEN [m EXCEPT !.cnt[a] = cb, !.val[a] = vb] ELSE m
        m2 == IF lb THEN [m1 EXCEPT !.cnt[b] = ca, !.val[b] = va] ELSE m1
    IN  [m2 EXCEPT !.ub = ~la \/ ~lb, !.log = <<ea, eb>>]

\* swap(intrusive_ptr& other): std::swap(*m_pointer, *other.get()).
\* With an empty pointer on either side this dereferences nullptr.
swap(p, other) ==
    /\ ~crashed
    /\ p \in alive
    /\ other \in alive
    /\ LET a == m_pointer[p]
           b == get(other)
       IN  IF a = NULL \/ b = NULL
           THEN \E abort \in BOOLEAN :
                    Finish("swap", abort, alive,
                           m_pointer, Mem, held)
           ELSE \E gc \in GarbageIf(Dangling(a) \/ Dangling(b)),
                   gv \in IF Dangling(a) \/ Dangling(b) THEN Values ELSE {0} :
                    LET m == swap_objects(Mem, a, b, gc, gv)
                    IN  \E abort \in AbortIf(m.ub) :
                            Finish("swap", abort, alive,
                                   m_pointer, m, held)

\* -------------------------------------------------------- specifications

\* Programs built from make_intrusive, copy and move construction, copy
\* assignment, reset with the default add_ref = true, swap and destruction.
NextCounted ==
    \/ \E p \in Ptrs, v \in Values : make_intrusive(p, v)
    \/ \E p \in Ptrs, q \in Ptrs : CopyConstruct(p, q)
    \/ \E p \in Ptrs, q \in Ptrs : MoveConstruct(p, q)
    \/ \E p \in Ptrs, q \in Ptrs : CopyAssign(p, q)
    \/ \E p \in Ptrs, o \in Objs \cup {NULL} : reset(p, o, TRUE)
    \/ \E p \in Ptrs, q \in Ptrs : swap(p, q)
    \/ \E p \in Ptrs : Destroy(p)

\* The operations that keep ownership inside intrusive_ptr: no detach and
\* no add_ref = false.
NextOwned ==
    \/ NextCounted
    \/ \E p \in Ptrs : ConstructEmpty(p)
    \/ \E p \in Ptrs, q \in Ptrs : MoveAssign(p, q)

Next ==
    \/ NextOwned
    \/ \E p \in Ptrs, o \in Objs \cup {NULL}, f \in BOOLEAN : ConstructRaw(p, o, f)
    \/ \E p \in Ptrs, o \in Objs \cup {NULL} : reset(p, o, FALSE)
    \/ \E p \in Ptrs : Detach(p)

Spec == Init /\ [][Next]_vars

SpecOwned == Init /\ [][NextOwned]_vars

SpecCounted == Init /\ [][NextCounted]_vars

\* ------------------------------------------------------------------ claims

Live(o) == o # NULL /\ heap[o] = "live"

\* The pointer instances whose slot refers to o.
Holders(o) == {p \in alive : m_pointer[p] = o}

\* The entries of a log that are a call of `kind` on object o.
Calls(l, kind, o) == {i \in DOMAIN l : l[i].kind = kind /\ l[i].obj = o}

\* C1: in every state the owning operations reach, a non-null slot refers
\* to a live object whose counter is at least 1, and the counter of every
\* live object is the number of pointer instances that refer to it.
C1_CounterCountsHolders ==
    ~crashed =>
        /\ \A p \in alive : m_pointer[p] # NULL =>
               Live(m_pointer[p]) /\ m_ref_count[m_pointer[p]] # Zero
        /\ \A o \in Objs : Live(o) => m_ref_count[o] = U32(Cardinality(Holders(o)))

\* C2: delete runs at most once on every object.
C2_DestroyedAtMostOnce == \A o \in Objs : deletes[o] <= 1

\* C3: copy-assigning src to a distinct dst that holds A releases A exactly
\* once: one intrusive_ptr_release(A) runs, and (when src holds another
\* object) A's counter is one less, A being destroyed if dst was its last
\* holder.
C3_CopyAssignReleasesOld ==
    [][last' = "copy_assign" => \A dst, src \in Ptrs :
        (CopyAssign(dst, src) /\ dst # src /\ Live(m_pointer[dst])) =>
            LET A == m_pointer[dst]
            IN  /\ Cardinality(Calls(log', "release", A)) = 1
                /\ m_pointer[src] # A =>
                       IF m_ref_count[A] = U32(1)
                       THEN heap'[A] = "freed"
                       ELSE heap'[A] = "live" /\ m_ref_count'[A] = Dec32(m_ref_count[A])]_vars

\* C4: copy-assigning a non-empty src to a distinct dst stores src's raw
\* reference in dst and adds one reference to the pointee: one
\* intrusive_ptr_add_ref runs on it, and (when dst held another object or
\* none) its counter is one more.
C4_CopyAssignAddsRef ==
    [][last' = "copy_assign" => \A dst, src \in Ptrs :
        (CopyAssign(dst, src) /\ dst # src /\ Live(m_pointer[src])) =>
            LET B == m_pointer[src]
            IN  /\ m_pointer'[dst] = B
                /\ m_pointer'[src] = B
                /\ Cardinality(Calls(log', "add_ref", B)) = 1
                /\ m_pointer[dst] # B => m_ref_count'[B] = Inc32(m_ref_count[B])]_vars

\* C5: move-assigning src to a distinct dst gives dst the raw reference of
\* src with that object's counter unchanged, leaves src empty, and releases
\* exactly once the object dst held.
C5_MoveAssignTransfers ==
    [][last' = "move_assign" => \A dst, src \in Ptrs :
        (MoveAssign(dst, src) /\ dst # src
            /\ (m_pointer[src] = NULL \/ Live(m_pointer[src]))
            /\ (m_pointer[dst] = NULL \/ Live(m_pointer[dst]))) =>
            LET A == m_pointer[dst]
                B == m_pointer[src]
            IN  /\ m_pointer'[dst] = B
                /\ m_pointer'[src] = NULL
                /\ B # NULL /\ A # B => m_ref_count'[B] = m_ref_count[B]
                /\ A # NULL => Cardinality(Calls(log', "release", A)) = 1
                /\ A # NULL /\ A # B =>
                       IF m_ref_count[A] = U32(1)
                       THEN heap'[A] = "freed"
                       ELSE heap'[A] = "live" /\ m_ref_count'[A] = Dec32(m_ref_count[A])]_vars

\* C6: after p1.swap(p2), p1 holds the raw reference p2 held and p2 the one
\* p1 held.
C6_SwapExchangesSlots ==
    [][last' = "swap" => \A p1, p2 \in Ptrs :
        (swap(p1, p2) /\ ~crashed') =>
            /\ m_pointer'[p1] = m_pointer[p2]
            /\ m_pointer'[p2] = m_pointer[p1]]_vars

\* C7: p1.swap(p2) on two pointers to live objects leaves the counter of
\* every object as it was.
C7_SwapKeepsCounters ==
    [][last' = "swap" => \A p1, p2 \in Ptrs :
        (swap(p1, p2) /\ Live(m_pointer[p1]) /\ Live(m_pointer[p2])) =>
            m_ref_count' = m_ref_count]_vars

\* C8: every write of the last operation that changed the counter of an
\* object is an intrusive_ptr_add_ref (counter + 1) or an
\* intrusive_ptr_release (counter - 1).
C8_OnlyAddRefAndRelease ==
    \A i \in DOMAIN log :
        ~log[i].uaf /\ log[i].new # log[i].old =>
            \/ log[i].kind = "add_ref" /\ log[i].new = Inc32(log[i].old)
            \/ log[i].kind = "release" /\ log[i].new = Dec32(log[i].old)

\* C9: copy-constructing from a source that refers to an object (counter n)
\* leaves source and copy on that object with counter n + 1 as the
\* use_count() of both; copy-constructing from an empty source gives an
\* empty pointer and changes no counter.
C9_CopyConstruct ==
    [][last' = "copy_construct" => \A p, src \in Ptrs :
        CopyConstruct(p, src) =>
            /\ Live(m_pointer[src]) =>
                   LET o == m_pointer[src]
                   IN  /\ m_pointer'[p] = o
                       /\ m_pointer'[src] = o
                       /\ p \in alive' /\ src \in alive'
                       /\ heap'[o] = "live"
                       /\ m_ref_count'[o] = Inc32(m_ref_count[o])
                       /\ \A x \in Objs \ {o} : m_ref_count'[x] = m_ref_count[x]
            /\ m_pointer[src] = NULL =>
                   /\ m_pointer'[p] = NULL
                   /\ p \in alive'
                   /\ m_ref_count' = m_ref_count
                   /\ heap' = heap
                   /\ log' = <<>>]_vars

\* A copy has just been made of a pointer to a live object: both refer to
\* it and its counter is 2.
C9_Witness ==
    /\ last = "copy_construct"
    /\ ~crashed
    /\ \E p, src \in alive :
        /\ p # src
        /\ m_pointer[p] = m_pointer[src]
        /\ Live(m_pointer[p])
        /\ m_ref_count[m_pointer[p]] = U32(2)
        /\ log = <<[obj |-> m_pointer[p], kind |-> "add_ref", uaf |-> FALSE,
                    old |-> U32(1), new |-> U32(2)]>>

\* C10: move-constructing gives the new pointer the raw reference of the
\* source, leaves the source empty and writes no counter; destroying a
\* pointer whose slot is empty, as the moved-from source is, writes no
\* counter and destroys nothing.
C10_MoveConstruct ==
    [][/\ last' = "move_construct" => \A p, src \in Ptrs :
            MoveConstruct(p, src) =>
                /\ m_pointer'[p] = m_pointer[src]
                /\ m_pointer'[src] = NULL
                /\ p \in alive' /\ src \in alive'
                /\ m_ref_count' = m_ref_count
                /\ heap' = heap
                /\ log' = <<>>
       /\ last' = "destroy" => \A p \in Ptrs :
            (p \in alive /\ m_pointer[p] = NULL /\ Destroy(p)) =>
                /\ m_ref_count' = m_ref_count
                /\ heap' = heap
                /\ log' = <<>>]_vars

\* A pointer to a live object has just been move-constructed: its source
\* is alive and empty, and the counter still counts one reference.
C10_Witness ==
    /\ last = "move_construct"
    /\ \E p, src \in alive :
        /\ p # src
        /\ m_pointer[src] = NULL
        /\ Live(m_pointer[p])
        /\ m_ref_count[m_pointer[p]] = U32(1)
        /\ Holders(m_pointer[p]) = {p}

\* C11: detach() hands the caller the raw reference the pointer held
\* (nothing if it was empty), leaves the pointer empty and writes no
\* counter; destroying a pointer that is empty, as a detached one is,
\* releases nothing.
C11_Detach ==
    [][/\ last' = "detach" => \A p \in Ptrs :
            (p \in alive /\ Detach(p)) =>
                /\ m_pointer'[p] = NULL
                /\ \A q \in Ptrs \ {p} : m_pointer'[q] = m_pointer[q]
                /\ \A o \in Objs :
                       held'[o] = IF o = m_pointer[p] THEN held[o] + 1 ELSE held[o]
                /\ m_ref_count' = m_ref_count
                /\ heap' = heap
                /\ log' = <<>>
       /\ last' = "destroy" => \A p \in Ptrs :
            (p \in alive /\ m_pointer[p] = NULL /\ Destroy(p)) =>
                /\ Calls(log', "release", NULL) = {}
                /\ log' = <<>>
                /\ m_ref_count' = m_ref_count
                /\ heap' = heap
                /\ held' = held]_vars

\* The sole owner of a live object has just been detached: the pointer is
\* empty, the caller holds the reference and the counter is still 1.
C11_Witness ==
    /\ last = "detach"
    /\ \E p \in alive, o \in Objs :
        /\ m_pointer[p] = NULL
        /\ Live(o)
        /\ held[o] = 1
        /\ Holders(o) = {}
        /\ m_ref_count[o] = U32(1)

\* C12: reset(B) with the default increment on a pointer that holds A, A and
\* B two live objects: afterwards get() is B, B's counter is one more, and
\* A's counter is one less, A being destroyed exactly when its counter was 1.
C12_Reset ==
    [][last' = "reset" => \A p \in Ptrs, B \in Objs :
        (Live(m_pointer[p]) /\ Live(B) /\ m_pointer[p] # B /\ reset(p, B, TRUE)) =>
            LET A == m_pointer[p]
            IN  /\ m_pointer'[p] = B
                /\ heap'[B] = "live"
                /\ m_ref_count'[B] = Inc32(m_ref_count[B])
                /\ IF m_ref_count[A] = U32(1)
                   THEN heap'[A] = "freed" /\ deletes'[A] = deletes[A] + 1
                   ELSE /\ heap'[A] = "live"
                        /\ deletes'[A] = deletes[A]
                        /\ m_ref_count'[A] = Dec32(m_ref_count[A])
                /\ \A x \in Objs \ {A, B} : m_ref_count'[x] = m_ref_count[x]]_vars

\* A pointer that was the last holder of A has just been reset to B: A is
\* destroyed and B counts the pointer.
C12_Witness ==
    /\ last = "reset"
    /\ ~crashed
    /\ \E p \in alive, A, B \in Objs :
        /\ A # B
        /\ m_pointer[p] = B
        /\ Live(B)
        /\ heap[A] = "freed"
        /\ m_ref_count[B] = U32(2)
        /\ log = <<[obj |-> B, kind |-> "add_ref", uaf |-> FALSE,
                    old |-> U32(1), new |-> U32(2)],
                   [obj |-> A, kind |-> "release", uaf |-> FALSE,
                    old |-> U32(1), new |-> Zero]>>

\* C13: make_intrusive returns a non-empty pointer to a newly allocated
\* object, which no existing pointer or raw reference refers to, with
\* use_count() 1.
C13_MakeIntrusive ==
    [][last' = "make_intrusive" => \A p \in Ptrs, v \in Values :
        (p \notin alive /\ make_intrusive(p, v)) =>
            /\ p \in alive'
            /\ m_pointer'[p] # NULL
            /\ heap[m_pointer'[p]] = "unalloc"
            /\ heap'[m_pointer'[p]] = "live"
            /\ \A q \in alive : m_pointer[q] # m_pointer'[p]
            /\ \A q \in alive' \ {p} : m_pointer'[q] # m_pointer'[p]
            /\ held[m_pointer'[p]] = 0
            /\ use_count(p)' = U32(1)
            /\ m_ref_count'[m_pointer'[p]] = U32(1)
            /\ \A o \in Objs \ {m_pointer'[p]} :
                   m_ref_count'[o] = m_ref_count[o] /\ heap'[o] = heap[o]]_vars

\* A second object has just been made while the first is still live: the
\* new pointer is its only holder and its counter is 1.
C13_Witness ==
    /\ last = "make_intrusive"
    /\ \E p, q \in alive :
        /\ p # q
        /\ Live(m_pointer[p])
        /\ Live(m_pointer[q])
        /\ m_pointer[p] # m_pointer[q]
        /\ Holders(m_pointer[p]) = {p}
        /\ use_count(p) = U32(1)
        /\ log = <<[obj |-> m_pointer[p], kind |-> "add_ref", uaf |-> FALSE,
                    old |-> Zero, new |-> U32(1)]>>

\* C14: a pointer that is default-constructed, moved-from or detached is
\* empty: get() is null and use_count() is 0; and use_count() of a pointer
\* that refers to a live object is that object's counter.
C14_EmptyAndUseCount ==
    [][/\ last' = "construct_empty" => \A p \in Ptrs :
            (p \notin alive /\ ConstructEmpty(p)) =>
                get(p)' = NULL /\ use_count(p)' = Zero /\ ~ToBool(p)'
       /\ last' = "move_construct" => \A p, src \in Ptrs :
            (src \in alive /\ MoveConstruct(p, src)) =>
                get(src)' = NULL /\ use_count(src)' = Zero /\ ~ToBool(src)'
       /\ last' = "detach" => \A p \in Ptrs :
            (p \in alive /\ Detach(p)) =>
                get(p)' = NULL /\ use_count(p)' = Zero /\ ~ToBool(p)'
       /\ \A p \in alive :
            /\ m_pointer[p] = NULL => use_count(p) = Zero
            /\ Live(m_pointer[p]) =>
                   /\ use_count(p) = m_ref_count[m_pointer[p]]
                   /\ \A q \in Holders(m_pointer[p]) : use_count(q) = use_count(p)]_vars

\* Next to a pointer whose use_count() is 2, a pointer has just been
\* emptied by detach.
C14_Witness ==
    /\ last = "detach"
    /\ \E p, q \in alive :
        /\ get(p) = NULL
        /\ use_count(p) = Zero
        /\ Live(get(q))
        /\ use_count(q) = U32(2)

\* C15: p == q exactly when p.get() and q.get() are the same identity (or
\* both null) and p != q is its negation; a pointer and its copy compare
\* equal, pointers to two distinct objects with the same Value compare
\* not-equal.
C15_Equality ==
    [][/\ \A p, q \in alive :
            /\ Equals(p, q) <=> get(p) = get(q)
            /\ NotEquals(p, q) <=> ~Equals(p, q)
            /\ (Live(get(p)) /\ Live(get(q)) /\ get(p) # get(q)
                    /\ Value[get(p)] = Value[get(q)]) =>
                   NotEquals(p, q) /\ ~Equals(p, q)
       /\ last' = "copy_construct" => \A p, src \in Ptrs :
            (p \notin alive /\ src \in alive /\ ~crashed' /\ CopyConstruct(p, src)) =>
                Equals(p, src)' /\ Equals(src, p)' /\ ~NotEquals(p, src)']_vars

\* A pointer, its copy, and a pointer to another object with the same
\* Value: the first two compare equal, the third differs from both.
C15_Witness ==
    \E p, q, r \in alive :
        /\ p # q
        /\ Live(get(p)) /\ Live(get(r))
        /\ Equals(p, q) /\ ~NotEquals(p, q)
        /\ NotEquals(p, r) /\ ~Equals(q, r)
        /\ Value[get(p)] = Value[get(r)]

\* C16: copy-assigning or move-assigning a pointer to itself changes
\* nothing: every slot and every counter is as before, nothing is
\* destroyed and no counter is written.
C16_SelfAssign ==
    [][/\ last' = "copy_assign" => \A p \in Ptrs :
            (p \in alive /\ CopyAssign(p, p)) =>
                /\ UNCHANGED prog
                /\ ~crashed'
                /\ log' = <<>>
       /\ last' = "move_assign" => \A p \in Ptrs :
            (p \in alive /\ MoveAssign(p, p)) =>
                /\ UNCHANGED prog
                /\ ~crashed'
                /\ log' = <<>>]_vars

\* The only pointer there is, sole owner of a live object, has just been
\* copy-assigned: the assignment was to itself.
C16_Witness ==
    /\ last = "copy_assign"
    /\ \E p \in Ptrs :
        /\ alive = {p}
        /\ Live(m_pointer[p])
        /\ m_ref_count[m_pointer[p]] = U32(1)

\* C17: reset(p.get()) with the default increment on the sole holder p of A
\* (counter 1) acquires before it releases: the counter goes 1 -> 2 -> 1 and
\* is never 0, A is not destroyed, and p still holds A with counter 1.
C17_ResetToSelf ==
    [][last' = "reset" => \A p \in Ptrs :
        (p \in alive /\ Live(m_pointer[p]) /\ m_ref_count[m_pointer[p]] = U32(1)
            /\ Holders(m_pointer[p]) = {p} /\ reset(p, m_pointer[p], TRUE)) =>
            LET A == m_pointer[p]
            IN  /\ ~crashed'
                /\ m_pointer'[p] = A
                /\ heap'[A] = "live"
                /\ deletes'[A] = deletes[A]
                /\ m_ref_count'[A] = U32(1)
                /\ \A i \in DOMAIN log' : log'[i].new # Zero /\ ~log'[i].uaf
                /\ log' = <<[obj |-> A, kind |-> "add_ref", uaf |-> FALSE,
                             old |-> U32(1), new |-> U32(2)],
                            [obj |-> A, kind |-> "release", uaf |-> FALSE,
                             old |-> U32(2), new |-> U32(1)]>>]_vars

\* The sole holder of a live object has just been reset to the object it
\* holds: add_ref then release ran on it and its counter is 1 again.
C17_Witness ==
    /\ last = "reset"
    /\ ~crashed
    /\ \E p \in alive :
        /\ Live(m_pointer[p])
        /\ Holders(m_pointer[p]) = {p}
        /\ m_ref_count[m_pointer[p]] = U32(1)
        /\ Len(log) = 2
        /\ log[1].kind = "add_ref" /\ log[1].obj = m_pointer[p]
        /\ log[2].kind = "release" /\ log[2].obj = m_pointer[p]

\* C18: intrusive_ptr(ptr, false) leaves the counter of the object as it is
\* and intrusive_ptr(ptr, true) adds exactly 1, so adopting what detach()
\* handed out moves the reference: the new pointer holds the object, the
\* counter is the one before, and the handed-out reference is used up.
C18_AdoptRaw ==
    [][last' = "construct_raw" => \A q \in Ptrs, o \in Objs :
        (q \notin alive /\ Live(o)) =>
            /\ (held[o] > 0 /\ ConstructRaw(q, o, FALSE)) =>
                   /\ ~crashed'
                   /\ q \in alive'
                   /\ m_pointer'[q] = o
                   /\ \A r \in alive : m_pointer'[r] = m_pointer[r]
                   /\ m_ref_count' = m_ref_count
                   /\ heap' = heap
                   /\ log' = <<>>
                   /\ held' = [held EXCEPT ![o] = @ - 1]
            /\ (o \in RawRefs /\ ConstructRaw(q, o, TRUE)) =>
                   /\ ~crashed'
                   /\ m_pointer'[q] = o
                   /\ m_ref_count' = [m_ref_count EXCEPT ![o] = Inc32(@)]
                   /\ heap' = heap
                   /\ held' = held]_vars

\* q has just adopted the reference another pointer detached: q is the only
\* holder, the counter is still 1, the detached pointer is empty and no
\* reference is left outside a pointer.
C18_Witness ==
    /\ last = "construct_raw"
    /\ ~crashed
    /\ log = <<>>
    /\ \E p, q \in alive, o \in Objs :
        /\ p # q
        /\ m_pointer[p] = NULL
        /\ Live(o)
        /\ Holders(o) = {q}
        /\ m_ref_count[o] = U32(1)
        /\ held[o] = 0

\* C19: in programs built from make_intrusive, copy and move construction,
\* copy assignment, reset with add_ref = true, swap and destruction, no
\* pointer instance has a slot that refers to a destroyed object.
C19_NoDanglingSlot ==
    \A p \in alive : m_pointer[p] # NULL => heap[m_pointer[p]] = "live"

\* C20: in the same programs no object leaks: every live object has at
\* least one pointer instance referring to it, so once every pointer is
\* destroyed every object made by make_intrusive is destroyed too.
C20_NoLeak ==
    /\ \A o \in Objs : Live(o) => Holders(o) # {}
    /\ alive = {} => \A o \in Objs : heap[o] # "live"

====
